---- MODULE Spec2Model ----
(***************************************************************************)
(* Model of src/Tree.h (namespace boosting): the TreeNode hierarchy        *)
(* (PartitionNode, LeafNode), the JSON codec (toJson / fromJson) and the   *)
(* ensemble predictors (predict, predict_vec).                             *)
(*                                                                         *)
(* Trees are values: a LeafNode is [kind |-> "Leaf", vote], a PartitionNode*)
(* is [kind |-> "Split", fid, fv, vote, left, right] whose children are    *)
(* trees or NULL.  The template parameter T is "int" or "double".          *)
(*                                                                         *)
(* A double is modelled as a binary floating-point number with PrecBits    *)
(* significant bits and least exponent -FracBits (IEEE-754 double has 53   *)
(* and -1074): the integer n stands for n / 2^FracBits, and n is           *)
(* representable when it has at most PrecBits significant bits.  Every     *)
(* arithmetic operation rounds its exact result to the nearest             *)
(* representable value, ties to even, as the hardware does.                *)
(***************************************************************************)
EXTENDS Integers, Sequences, FiniteSets, TLC

VARIABLES T, cfg, held, doc, tree, tree0, fvec, ws, models, score, prior,
          ret, pc

vars == <<T, cfg, held, doc, tree, tree0, fvec, ws, models, score, prior,
          ret, pc>>

(***************************************************************************)
(* Bounds of the model.                                                    *)
(***************************************************************************)
PrecBits == 3
FracBits == 1
MaxModels == 2
MaxPrior == 1
MaxCalls == 2
MaxNodes == 3

(***************************************************************************)
(* double arithmetic                                                       *)
(***************************************************************************)
RECURSIVE Pow2(_)
Pow2(k) == IF k = 0 THEN 1 ELSE 2 * Pow2(k - 1)

Unit == Pow2(FracBits)

Abs(x) == IF x < 0 THEN -x ELSE x

Sgn(x) == IF x < 0 THEN -1 ELSE 1

\* The spacing of the representable values around the exact value N / (d * Unit).
RECURSIVE Quantum(_, _)
Quantum(N, q) == IF Abs(N) < Pow2(PrecBits) * q THEN q ELSE Quantum(N, 2 * q)

\* a / q rounded to the nearest integer, ties to even (a >= 0).
RoundHalfEven(a, q) ==
  LET f == a \div q
      r == a % q
  IN IF 2 * r < q THEN f
     ELSE IF 2 * r > q THEN f + 1
     ELSE IF f % 2 = 0 THEN f ELSE f + 1

\* The double nearest to the exact value N / (d * Unit).
Round(N, d) ==
  LET q == Quantum(N, d)
  IN Sgn(N) * RoundHalfEven(Abs(N), q) * (q \div d)

\* double * double
Mul(a, b) == Round(a * b, Unit)

\* double + double
Add(a, b) == Round(a + b, 1)

\* int -> double
FromInt(i) == Round(i * Unit, 1)

\* static_cast<int>(double): truncation toward zero
ToInt(d) == Sgn(d) * (Abs(d) \div Unit)

\* The double k / 2, written from a literal such as 2.5 (k = 5).
Halves(k) == k * (Unit \div 2)

Zero == Halves(0)

ElemTypes == {"int", "double"}

\* The value of type T that the literal integer i denotes.
Lit(t, i) == IF t = "int" THEN i ELSE FromInt(i)

(***************************************************************************)
(* TreeNode hierarchy                                                      *)
(***************************************************************************)
NULL == [kind |-> "Null"]

\* The outcome of dereferencing a null child: undefined behaviour.  No
\* action applies eval, scale or toJson to a tree that has a null child.
Undefined == [kind |-> "Undefined"]

PartitionNode(fid, fv) ==
  [kind |-> "Split", fid |-> fid, fv |-> fv, vote |-> Zero,
   left |-> NULL, right |-> NULL]

setLeft(n, l) == [n EXCEPT !.left = l]

setRightDropped(n, r) == n

setRight(n, r) == [n EXCEPT !.right = r]

setVote(n, fvote) == [n EXCEPT !.vote = fvote]

LeafNode(fvote) == [kind |-> "Leaf", vote |-> fvote]

RECURSIVE eval(_, _)
evalStrict(n, v) ==
  IF n.kind = "Leaf" THEN n.vote
  ELSE IF n.kind = "Split"
       THEN IF v[n.fid] < n.fv THEN eval(n.left, v) ELSE eval(n.right, v)
       ELSE Undefined

eval(n, v) ==
  IF n.kind = "Leaf" THEN n.vote
  ELSE IF n.kind = "Split"
       THEN IF v[n.fid] <= n.fv THEN eval(n.left, v) ELSE eval(n.right, v)
       ELSE Undefined

RECURSIVE scale(_, _)
scaleLeavesOnly(n, w) ==
  IF n.kind = "Leaf" THEN [n EXCEPT !.vote = Mul(n.vote, w)]
  ELSE IF n.kind = "Split"
       THEN [n EXCEPT !.left = scale(n.left, w), !.right = scale(n.right, w)]
       ELSE Undefined

scale(n, w) ==
  IF n.kind = "Leaf" THEN [n EXCEPT !.vote = Mul(n.vote, w)]
  ELSE IF n.kind = "Split"
       THEN LET l == scale(n.left, w)
                r == scale(n.right, w)
            IN IF l = Undefined \/ r = Undefined THEN Undefined
               ELSE [n EXCEPT !.vote = Mul(n.vote, w), !.left = l, !.right = r]
       ELSE Undefined

(***************************************************************************)
(* Configuration collaborator (Config.h)                                   *)
(***************************************************************************)
getFeatureName(c, index) ==
  IF index \in DOMAIN c.name THEN c.name[index] ELSE ""

getFeatureIndex(c, name) ==
  IF name \in DOMAIN c.index THEN c.index[name] ELSE -1

FeatureIds == {0, 1}

\* Every feature registered under its own name.
CfgFull ==
  [name |-> (0 :> "age" @@ 1 :> "height"),
   index |-> ("age" :> 0 @@ "height" :> 1)]

\* Feature 1 has a name that the name -> index lookup does not know.
CfgPartial ==
  [name |-> (0 :> "age" @@ 1 :> "height"),
   index |-> ("age" :> 0)]

\* Two features registered under one name.
CfgAlias ==
  [name |-> (0 :> "age" @@ 1 :> "age"),
   index |-> ("age" :> 0)]

Configs == {CfgFull, CfgPartial, CfgAlias}

(***************************************************************************)
(* folly::dynamic: a JSON value is [type, val]; an object's val is a       *)
(* function from its keys to JSON values.                                  *)
(***************************************************************************)
JInt(i) == [type |-> "int", val |-> i]

JDbl(d) == [type |-> "double", val |-> d]

JStr(s) == [type |-> "string", val |-> s]

JObj(f) == [type |-> "object", val |-> f]

\* The outcomes of fromJson other than a node: a C++ exception that
\* propagates to the caller, and the process abort of a failed CHECK.
Throw == [kind |-> "Throw"]

Abort == [kind |-> "Abort"]

IsNode(r) == r.kind \in {"Leaf", "Split"}

\* obj[key] on a const dynamic succeeds only on an object that has the key.
Has(obj, key) == obj.type = "object" /\ key \in DOMAIN obj.val

\* dynamic::asDouble converts numbers; it throws on an object and on a
\* string that is not the text of a number, as the strings here are.
IsNumber(j) == j.type \in {"int", "double"}

asDouble(j) == IF j.type = "int" THEN FromInt(j.val) ELSE j.val

\* dynamic::asString: a string as it is, a number as its decimal text.
asString(j) == IF j.type = "string" THEN j.val ELSE ToString(j.val)

\* static_cast<T>(double) stored back into a double
CastVoteExact(t, d) == d

CastVote(t, d) == IF t = "int" THEN FromInt(ToInt(d)) ELSE d

\* static_cast<T>(obj["value"].asInt()) or static_cast<T>(obj["value"].asDouble())
ReadValue(t, j) ==
  IF j.type = "int"
  THEN (IF t = "int" THEN j.val ELSE FromInt(j.val))
  ELSE (IF t = "int" THEN ToInt(j.val) ELSE j.val)

\* m.insert("value", fv_)
WriteValue(t, fv) == IF t = "int" THEN JInt(fv) ELSE JDbl(fv)

RECURSIVE toJson(_, _, _)
toJson(n, t, c) ==
  IF n.kind = "Leaf"
  THEN JObj("index" :> JInt(-1) @@ "vote" :> JDbl(n.vote))
  ELSE IF n.kind = "Split"
       THEN LET l == toJson(n.left, t, c)
                r == toJson(n.right, t, c)
            IN IF l.type = "undefined" \/ r.type = "undefined"
               THEN [type |-> "undefined"]
               ELSE JObj("index" :> JInt(n.fid) @@
                         "value" :> WriteValue(t, n.fv) @@
                         "left" :> l @@
                         "right" :> r @@
                         "vote" :> JDbl(n.vote) @@
                         "feature" :> JStr(getFeatureName(c, n.fid)))
       ELSE [type |-> "undefined"]

\* if (!feature): the lookup of "feature" threw and left the pointer null
IsLeafDocByChildren(obj) == ~Has(obj, "left")

IsLeafDoc(obj) == ~Has(obj, "feature")

\* CHECK_GE(index, 0)
CheckAlways(index) == TRUE

CheckGE(index) == index >= 0

IsFailure(r) == r.kind \in {"Throw", "Abort"}

RECURSIVE fromJson(_, _, _)
\* fromJson<T>(obj[key], cfg): obj[key] throws when the key is missing
ChildOrNull(obj, key, t, c) ==
  IF ~Has(obj, key) THEN NULL ELSE fromJson(obj.val[key], t, c)

Child(obj, key, t, c) ==
  IF ~Has(obj, key) THEN Throw ELSE fromJson(obj.val[key], t, c)

fromJson(obj, t, c) ==
  \* double vote = static_cast<T>(obj["vote"].asDouble());
  IF ~Has(obj, "vote") THEN Throw
  ELSE IF ~IsNumber(obj.val["vote"]) THEN Throw
  ELSE
    LET vote == CastVote(t, asDouble(obj.val["vote"]))
    IN \* if (!feature) return new LeafNode<T>(vote);
       IF IsLeafDoc(obj) THEN LeafNode(vote)
       \* feature->asString() needs the "feature" field
       ELSE IF ~Has(obj, "feature") THEN Throw
       ELSE IF obj.val["feature"].type = "object" THEN Throw
       ELSE
         LET index == getFeatureIndex(c, asString(obj.val["feature"]))
         IN IF ~CheckGE(index) THEN Abort
            \* obj["value"].isInt() ? asInt() : asDouble()
            ELSE IF ~Has(obj, "value") THEN Throw
            ELSE IF ~IsNumber(obj.val["value"]) THEN Throw
            ELSE
              LET rt == PartitionNode(index, ReadValue(t, obj.val["value"]))
                  l == Child(obj, "left", t, c)
              IN IF IsFailure(l) THEN l
                 ELSE LET r == Child(obj, "right", t, c)
                      IN IF IsFailure(r) THEN r
                         ELSE setVote(setRight(setLeft(rt, l), r), vote)

(***************************************************************************)
(* Ensemble predictors                                                     *)
(***************************************************************************)
\* for (const auto& m : models) f += m->eval(fvec);  -- from the i-th model on
RECURSIVE predictLoop(_, _, _, _)
predictLoop(ms, v, i, f) ==
  IF i > Len(ms) THEN f
  ELSE predictLoop(ms, v, i + 1, Add(f, eval(ms[i], v)))

predictSkipFirst(ms, v) == predictLoop(ms, v, 2, Zero)

predict(ms, v) == predictLoop(ms, v, 1, Zero)

\* for (const auto& m : models) { f += m->eval(fvec); score->push_back(f); }
RECURSIVE predictVecLoop(_, _, _, _, _)
predictVecLoopPushEval(ms, v, i, f, sc) ==
  IF i > Len(ms) THEN [f |-> f, score |-> sc]
  ELSE predictVecLoop(ms, v, i + 1, Add(f, eval(ms[i], v)),
                      Append(sc, eval(ms[i], v)))

predictVecLoop(ms, v, i, f, sc) ==
  IF i > Len(ms) THEN [f |-> f, score |-> sc]
  ELSE predictVecLoop(ms, v, i + 1, Add(f, eval(ms[i], v)),
                      Append(sc, Add(f, eval(ms[i], v))))

predict_vec(ms, v, sc) == predictVecLoop(ms, v, 1, Zero, sc)

(***************************************************************************)
(* Inputs: trees a training component can have built, feature vectors      *)
(***************************************************************************)
LeafVotes == {Halves(2), Halves(4), Halves(5)}

SplitVotes == {Zero, Halves(3)}

Thresholds(t) == {Lit(t, 5)} \cup (IF t = "double" THEN {Halves(5)} ELSE {})

Split(fid, fv, fvote, l, r) ==
  setVote(setRight(setLeft(PartitionNode(fid, fv), l), r), fvote)

Leaves == {LeafNode(v) : v \in LeafVotes}

Stumps(t) ==
  {Split(fid, fv, v, l, r) :
     fid \in FeatureIds, fv \in Thresholds(t), v \in SplitVotes,
     l \in Leaves, r \in Leaves}

Subtrees(t) ==
  {LeafNode(Halves(2)), LeafNode(Halves(5)),
   Split(0, Lit(t, 5), Zero, LeafNode(Halves(2)), LeafNode(Halves(4))),
   Split(1, Lit(t, 5), Halves(3), LeafNode(Halves(5)), LeafNode(Halves(2)))}

Nested(t) ==
  {Split(fid, Lit(t, 5), Zero, l, r) :
     fid \in FeatureIds, l \in Subtrees(t), r \in Subtrees(t)}

TreeVals(t) == Leaves \cup Stumps(t) \cup Nested(t)

FVecs(t) == [FeatureIds -> {Lit(t, 3), Lit(t, 5), Lit(t, 6)}]

Weights == {Halves(1), Halves(3), Halves(4)}

(***************************************************************************)
(* State                                                                   *)
(***************************************************************************)
NoDoc == [type |-> "none"]

None == [op |-> "none"]

(***************************************************************************)
(* Evaluation and scaling of an already built tree                         *)
(***************************************************************************)
InitEval ==
  /\ T \in ElemTypes
  /\ tree \in TreeVals(T)
  /\ tree0 = tree
  /\ fvec \in FVecs(T)
  /\ pc = "built"
  /\ cfg = CfgFull
  /\ held = {}
  /\ doc = NoDoc
  /\ ws = <<>>
  /\ models = <<>>
  /\ score = <<>>
  /\ prior = <<>>
  /\ ret = None

\* double r = tree->eval(fvec)
Eval ==
  /\ pc \in {"built", "evaluated"}
  /\ ret' = [op |-> "eval", val |-> eval(tree, fvec)]
  /\ pc' = "evaluated"
  /\ UNCHANGED <<T, cfg, held, doc, tree, tree0, fvec, ws, models, score, prior>>

NextEval == Eval

SpecEval == InitEval /\ [][NextEval]_vars

InitScale ==
  /\ T \in ElemTypes
  /\ tree \in TreeVals(T)
  /\ tree0 = tree
  /\ pc = "built"
  /\ cfg = CfgFull
  /\ held = {}
  /\ doc = NoDoc
  /\ fvec = <<>>
  /\ ws = <<>>
  /\ models = <<>>
  /\ score = <<>>
  /\ prior = <<>>
  /\ ret = None

\* tree->scale(w)
Scale(w) ==
  /\ pc \in {"built", "scaled"}
  /\ Len(ws) < MaxCalls
  /\ tree' = scale(tree, w)
  /\ ws' = Append(ws, w)
  /\ pc' = "scaled"
  /\ UNCHANGED <<T, cfg, held, doc, tree0, fvec, models, score, prior, ret>>

NextScale == \E w \in Weights : Scale(w)

SpecScale == InitScale /\ [][NextScale]_vars

(***************************************************************************)
(* Documents a caller can hand to fromJson                                 *)
(***************************************************************************)
Absent == [type |-> "absent"]

Keys == {"index", "value", "left", "right", "vote", "feature"}

\* The object that holds the fields of f that are not Absent.
Obj(f) == JObj([k \in {x \in DOMAIN f : f[x].type # "absent"} |-> f[k]])

Fields(index, value, left, right, fvote, feature) ==
  "index" :> index @@ "value" :> value @@ "left" :> left @@
  "right" :> right @@ "vote" :> fvote @@ "feature" :> feature

FeatureOpt == {Absent, JStr("age"), JStr("height")}

\* Documents without children: leaves, and splits that lack both children.
ChildDocs ==
  {Obj(Fields(i, v, Absent, Absent, w, f)) :
     i \in {Absent, JInt(-1)}, v \in {Absent, JInt(5)},
     w \in {Absent, JDbl(Halves(5))}, f \in FeatureOpt}

ChildOpt == ChildDocs \cup {Absent, JInt(7)}

TopDocs ==
  {Obj(Fields(Absent, v, l, r, w, f)) :
     v \in {Absent, JInt(5), JDbl(Halves(5))},
     l \in ChildOpt, r \in ChildOpt,
     w \in {Absent, JDbl(Halves(5)), JInt(1), JStr("high")},
     f \in FeatureOpt \cup {JInt(7)}}

LeafDoc == Obj(Fields(Absent, Absent, Absent, Absent, JDbl(Halves(5)), Absent))

InnerDocs ==
  {Obj(Fields(Absent, v, l, r, JInt(1), f)) :
     v \in {Absent, JInt(5)},
     l \in {Absent, LeafDoc}, r \in {Absent, LeafDoc},
     f \in FeatureOpt}

DeepDocs ==
  {Obj(Fields(Absent, JInt(5), l, r, JDbl(Halves(3)), JStr("age"))) :
     l \in InnerDocs \cup {LeafDoc}, r \in InnerDocs \cup {LeafDoc}}

Docs == ChildDocs \cup TopDocs \cup DeepDocs \cup {JInt(7)}

(***************************************************************************)
(* Export and load of a model                                              *)
(***************************************************************************)
InitCodec ==
  /\ T \in ElemTypes
  /\ cfg \in Configs
  /\ \/ /\ tree \in TreeVals(T)
        /\ doc = NoDoc
        /\ pc = "built"
     \/ /\ tree = NULL
        /\ doc \in Docs
        /\ pc = "received"
  /\ tree0 = tree
  /\ held = {}
  /\ fvec = <<>>
  /\ ws = <<>>
  /\ models = <<>>
  /\ score = <<>>
  /\ prior = <<>>
  /\ ret = None

\* folly::dynamic d = tree->toJson(cfg)
ToJson ==
  /\ pc = "built"
  /\ doc' = toJson(tree, T, cfg)
  /\ pc' = "serialized"
  /\ UNCHANGED <<T, cfg, held, tree, tree0, fvec, ws, models, score, prior, ret>>

\* TreeNode<T>* r = fromJson<T>(d, cfg)
FromJson ==
  /\ pc \in {"received", "serialized"}
  /\ ret' = [op |-> "fromJson", val |-> fromJson(doc, T, cfg)]
  /\ pc' = IF pc = "serialized" THEN "reloaded" ELSE "parsed"
  /\ UNCHANGED <<T, cfg, held, doc, tree, tree0, fvec, ws, models, score, prior>>

NextCodec == ToJson \/ FromJson

SpecCodec == InitCodec /\ [][NextCodec]_vars

(***************************************************************************)
(* Prediction with an ensemble                                             *)
(***************************************************************************)
SeqsUpTo(S, n) == UNION {[1..k -> S] : k \in 0..n}

EnsembleTrees(t) ==
  {LeafNode(Halves(4)), LeafNode(Halves(5)),
   Split(0, Lit(t, 5), Zero, LeafNode(Halves(2)), LeafNode(Halves(4))),
   Split(1, Lit(t, 5), Halves(3), LeafNode(Halves(5)), LeafNode(Halves(3)))}

InitEnsemble ==
  /\ T \in ElemTypes
  /\ models \in SeqsUpTo(EnsembleTrees(T), MaxModels)
  /\ fvec \in FVecs(T)
  /\ score \in SeqsUpTo({Halves(3), Halves(4)}, MaxPrior)
  /\ prior = score
  /\ pc = "loaded"
  /\ cfg = CfgFull
  /\ held = {}
  /\ doc = NoDoc
  /\ tree = NULL
  /\ tree0 = NULL
  /\ ws = <<>>
  /\ ret = None

\* double f = predict(models, fvec)
Predict ==
  /\ pc \in {"loaded", "predicted"}
  /\ ret.op # "predict"
  /\ ret' = [op |-> "predict", val |-> predict(models, fvec)]
  /\ pc' = "predicted"
  /\ UNCHANGED <<T, cfg, held, doc, tree, tree0, fvec, ws, models, score, prior>>

\* double f = predict_vec(models, fvec, &score), on the vector the caller holds
PredictVec ==
  /\ pc \in {"loaded", "predicted"}
  /\ Len(score) <= MaxPrior
  /\ LET r == predict_vec(models, fvec, score)
     IN /\ ret' = [op |-> "predict_vec", val |-> r.f]
        /\ score' = r.score
  /\ prior' = score
  /\ pc' = "predicted"
  /\ UNCHANGED <<T, cfg, held, doc, tree, tree0, fvec, ws, models>>

NextEnsemble == Predict \/ PredictVec

SpecEnsemble == InitEnsemble /\ [][NextEnsemble]_vars

(***************************************************************************)
(* Construction of trees by a caller: the constructors and setters on      *)
(* the nodes the caller holds, and fromJson.  A node handed to setLeft or  *)
(* setRight becomes owned by the parent and leaves the caller's hands.     *)
(***************************************************************************)
RECURSIVE NodeCount(_)
NodeCount(n) ==
  IF n.kind = "Leaf" THEN 1
  ELSE IF n.kind = "Split" THEN 1 + NodeCount(n.left) + NodeCount(n.right)
  ELSE 0

RECURSIVE HeldCount(_)
HeldCount(S) ==
  IF S = {} THEN 0
  ELSE LET n == CHOOSE x \in S : TRUE IN NodeCount(n) + HeldCount(S \ {n})

LoadDocs ==
  InnerDocs \cup {LeafDoc} \cup
  {Obj(Fields(Absent, JInt(5), l, LeafDoc, JDbl(Halves(3)), JStr("age"))) :
     l \in InnerDocs}

InitBuild ==
  /\ T \in ElemTypes
  /\ held = {}
  /\ ret = None
  /\ pc = "building"
  /\ cfg = CfgFull
  /\ doc = NoDoc
  /\ tree = NULL
  /\ tree0 = NULL
  /\ fvec = <<>>
  /\ ws = <<>>
  /\ models = <<>>
  /\ score = <<>>
  /\ prior = <<>>

\* new LeafNode<T>(fvote)
NewLeaf(fvote) ==
  /\ pc = "building"
  /\ HeldCount(held) < MaxNodes
  /\ held' = held \cup {LeafNode(fvote)}
  /\ UNCHANGED <<T, cfg, doc, tree, tree0, fvec, ws, models, score, prior, ret, pc>>

\* new PartitionNode<T>(fid, fv)
NewPartition(fid, fv) ==
  /\ pc = "building"
  /\ HeldCount(held) < MaxNodes
  /\ held' = held \cup {PartitionNode(fid, fv)}
  /\ UNCHANGED <<T, cfg, doc, tree, tree0, fvec, ws, models, score, prior, ret, pc>>

\* p->setLeft(c)
SetLeft(p, c) ==
  /\ pc = "building"
  /\ p \in held /\ p.kind = "Split"
  /\ c \in (held \ {p}) \cup {NULL}
  /\ held' = (held \ {p, c}) \cup {setLeft(p, c)}
  /\ UNCHANGED <<T, cfg, doc, tree, tree0, fvec, ws, models, score, prior, ret, pc>>

\* p->setRight(c)
SetRight(p, c) ==
  /\ pc = "building"
  /\ p \in held /\ p.kind = "Split"
  /\ c \in (held \ {p}) \cup {NULL}
  /\ held' = (held \ {p, c}) \cup {setRight(p, c)}
  /\ UNCHANGED <<T, cfg, doc, tree, tree0, fvec, ws, models, score, prior, ret, pc>>

\* p->setVote(fvote)
SetVote(p, fvote) ==
  /\ pc = "building"
  /\ p \in held /\ p.kind = "Split"
  /\ held' = (held \ {p}) \cup {setVote(p, fvote)}
  /\ UNCHANGED <<T, cfg, doc, tree, tree0, fvec, ws, models, score, prior, ret, pc>>

\* TreeNode<T>* r = fromJson<T>(d, cfg)
Load(d) ==
  /\ pc = "building"
  /\ ret.op = "none"
  /\ doc' = d
  /\ ret' = [op |-> "fromJson", val |-> fromJson(d, T, cfg)]
  /\ UNCHANGED <<T, cfg, held, tree, tree0, fvec, ws, models, score, prior, pc>>

NextBuild ==
  \/ \E v \in {Halves(2)} : NewLeaf(v)
  \/ \E fid \in {0}, fv \in {Lit(T, 5)} : NewPartition(fid, fv)
  \/ \E p \in held, c \in held \cup {NULL} : SetLeft(p, c)
  \/ \E p \in held, c \in held \cup {NULL} : SetRight(p, c)
  \/ \E p \in held, v \in {Halves(3)} : SetVote(p, v)
  \/ \E d \in LoadDocs : Load(d)

SpecBuild == InitBuild /\ [][NextBuild]_vars

(***************************************************************************)
(* The whole program                                                       *)
(***************************************************************************)
Init == InitEval \/ InitScale \/ InitCodec \/ InitEnsemble \/ InitBuild

Next == NextEval \/ NextScale \/ NextCodec \/ NextEnsemble \/ NextBuild

Spec == Init /\ [][Next]_vars

(***************************************************************************)
(* Properties                                                              *)
(***************************************************************************)
\* The leaf vote that the routing rule "left when value <= threshold,
\* right otherwise" leads to.
RECURSIVE Routed(_, _)
Routed(n, v) ==
  IF n.kind = "Leaf" THEN n.vote
  ELSE IF v[n.fid] > n.fv THEN Routed(n.right, v) ELSE Routed(n.left, v)

\* The votes of all nodes of a tree, parent first, then left, then right.
RECURSIVE NodeVotes(_)
NodeVotes(n) ==
  IF n.kind = "Leaf" THEN <<n.vote>>
  ELSE IF n.kind = "Split"
       THEN <<n.vote>> \o NodeVotes(n.left) \o NodeVotes(n.right)
       ELSE <<>>

\* The feature indices a tree uses.
RECURSIVE FidsOf(_)
FidsOf(n) ==
  IF n.kind = "Split" THEN {n.fid} \cup FidsOf(n.left) \cup FidsOf(n.right)
  ELSE {}

\* getFeatureName and getFeatureIndex are inverse on the indices of n.
Consistent(c, n) ==
  \A fid \in FidsOf(n) : getFeatureIndex(c, getFeatureName(c, fid)) = fid

\* Every Split has two children and every Leaf none.
RECURSIVE StrictlyBinary(_)
StrictlyBinary(n) ==
  IF n.kind = "Leaf" THEN TRUE
  ELSE IF n.kind = "Split"
       THEN /\ n.left.kind # "Null" /\ n.right.kind # "Null"
            /\ StrictlyBinary(n.left) /\ StrictlyBinary(n.right)
       ELSE FALSE

\* The Split documents of a document: the document itself when it has a
\* "feature" field, and the Split documents of its "left" and "right".
RECURSIVE SplitDocs(_)
SplitDocs(d) ==
  IF Has(d, "feature")
  THEN {d} \cup (IF Has(d, "left") THEN SplitDocs(d.val["left"]) ELSE {})
           \cup (IF Has(d, "right") THEN SplitDocs(d.val["right"]) ELSE {})
  ELSE {}

Unresolvable(d) == getFeatureIndex(cfg, asString(d.val["feature"])) < 0

Incomplete(d) == \E k \in {"left", "right", "value", "vote"} : ~Has(d, k)

\* The sum of eval over the first n trees, accumulated in order from 0.0.
RECURSIVE SumFirst(_, _, _)
SumFirst(ms, v, n) ==
  IF n = 0 THEN Zero ELSE Add(SumFirst(ms, v, n - 1), eval(ms[n], v))

\* a * b is a double: the product is computed without rounding.
ExactMul(a, b) == Mul(a, b) * Unit = a * b

Loaded == pc \in {"parsed", "reloaded"}

\* C1: a tree serialized with toJson and read back with fromJson under a
\* configuration whose name and index lookups are inverse on the tree's
\* feature indices has the same vote at every node and evaluates identically
\* on every feature vector.
C1_RoundTrip ==
  (pc = "reloaded" /\ Consistent(cfg, tree)) =>
    /\ IsNode(ret.val)
    /\ NodeVotes(ret.val) = NodeVotes(tree)
    /\ \A v \in FVecs(T) : eval(ret.val, v) = eval(tree, v)

\* C2: eval of a Split is the eval of its left child when
\* fvec[fid] <= threshold (equality included) and of its right child
\* otherwise, eval of a Leaf is its vote, and the Split's own vote has no
\* effect; Split(0, 5, Leaf(1.0), Leaf(2.0)) gives 1.0 on [3] and [5], 2.0 on [6].
C2_EvalRouting ==
  pc = "evaluated" =>
    /\ ret.val = Routed(tree, fvec)
    /\ tree.kind = "Split" =>
         \A x \in LeafVotes : eval(setVote(tree, x), fvec) = ret.val
    /\ tree = Split(0, Lit(T, 5), Zero, LeafNode(Halves(2)), LeafNode(Halves(4))) =>
         /\ fvec[0] = Lit(T, 3) => ret.val = Halves(2)
         /\ fvec[0] = Lit(T, 5) => ret.val = Halves(2)
         /\ fvec[0] = Lit(T, 6) => ret.val = Halves(4)

C2_Witness ==
  /\ pc = "evaluated"
  /\ tree.kind = "Split"
  /\ fvec[tree.fid] = tree.fv
  /\ tree.left.kind = "Leaf" /\ tree.right.kind = "Leaf"
  /\ tree.left.vote # tree.right.vote
  /\ ret.val = tree.left.vote

\* C3: predict returns the sum of eval over all trees, accumulated in order
\* (0 for the empty ensemble), and predict_vec returns the same total.
C3_Additivity ==
  ret.op \in {"predict", "predict_vec"} =>
    /\ ret.val = SumFirst(models, fvec, Len(models))
    /\ models = <<>> => ret.val = Zero
    /\ ret.op = "predict_vec" => ret.val = predict(models, fvec)

C3_Witness ==
  /\ ret.op = "predict"
  /\ Len(models) >= 2
  /\ eval(models[1], fvec) # Zero
  /\ ret.val # eval(models[2], fvec)

\* C4 as stated: after predict_vec the output vector has exactly one element
\* per tree, the i-th being the sum of eval over the first i trees and the
\* last being the returned total, whatever the vector held before the call.
C4_TraceIsWholeVector ==
  ret.op = "predict_vec" =>
    /\ Len(score) = Len(models)
    /\ \A i \in 1..Len(models) : score[i] = SumFirst(models, fvec, i)
    /\ Len(score) > 0 => score[Len(score)] = ret.val

\* C4 amended: predict_vec appends to the output vector; what the vector
\* held before stays in front, followed by one running total per tree, and
\* with at least one tree the last element is the returned total.
C4_TraceIsAppended ==
  ret.op = "predict_vec" =>
    /\ Len(score) = Len(prior) + Len(models)
    /\ SubSeq(score, 1, Len(prior)) = prior
    /\ \A i \in 1..Len(models) :
         score[Len(prior) + i] = SumFirst(models, fvec, i)
    /\ Len(models) > 0 => score[Len(score)] = ret.val

C4_Witness ==
  /\ ret.op = "predict_vec"
  /\ Len(prior) > 0
  /\ Len(models) >= 2
  /\ score[Len(score)] # score[Len(score) - 1]

\* C5 as stated: scale(w1) then scale(w2) leaves every node with the vote
\* that a single scale(w1 * w2) gives it.
C5_ScaleLinearity ==
  Len(ws) = 2 =>
    NodeVotes(tree) =
      [i \in 1..Len(NodeVotes(tree0)) |->
         Mul(NodeVotes(tree0)[i], Mul(ws[1], ws[2]))]

\* C5 amended: the two agree at every node whenever w1 * w2 and every
\* vote * w1 are computed without rounding.
C5_ScaleLinearityExact ==
  (/\ Len(ws) = 2
   /\ ExactMul(ws[1], ws[2])
   /\ \A i \in 1..Len(NodeVotes(tree0)) : ExactMul(NodeVotes(tree0)[i], ws[1])) =>
    NodeVotes(tree) =
      [i \in 1..Len(NodeVotes(tree0)) |->
         Mul(NodeVotes(tree0)[i], Mul(ws[1], ws[2]))]

C5_Witness ==
  /\ Len(ws) = 2
  /\ ExactMul(ws[1], ws[2])
  /\ \A i \in 1..Len(NodeVotes(tree0)) : ExactMul(NodeVotes(tree0)[i], ws[1])
  /\ tree0.kind = "Split" /\ tree0.vote # Zero
  /\ ws[1] # Unit /\ ws[2] # Unit
  /\ tree.vote # Mul(tree0.vote, ws[1])

\* C6 as stated: a document without "feature" always becomes a Leaf, and a
\* document with "feature" never does.
C6_LeafDiscriminator ==
  Loaded =>
    /\ ~Has(doc, "feature") => ret.val.kind = "Leaf"
    /\ Has(doc, "feature") => ret.val.kind # "Leaf"

\* C6 amended: a document without "feature" becomes a Leaf whenever it has a
\* "vote" that converts to a double, whatever other fields it has, and
\* fromJson throws when it has none; a document with "feature" never becomes
\* a Leaf.
C6_LeafDiscriminatorWithVote ==
  Loaded =>
    /\ (~Has(doc, "feature") /\ Has(doc, "vote") /\ IsNumber(doc.val["vote"]))
         => ret.val.kind = "Leaf"
    /\ (~Has(doc, "feature") /\ ~(Has(doc, "vote") /\ IsNumber(doc.val["vote"])))
         => ret.val = Throw
    /\ Has(doc, "feature") => ret.val.kind # "Leaf"

C6_Witness ==
  /\ pc = "parsed"
  /\ ~Has(doc, "feature")
  /\ Has(doc, "left") /\ Has(doc, "right") /\ Has(doc, "value")
  /\ ret.val.kind = "Leaf"

\* C7: the vote of the node fromJson returns is the document's "vote" read
\* as a floating-point value, for every element type T.
C7_VoteAsDouble ==
  (Loaded /\ IsNode(ret.val)) => ret.val.vote = asDouble(doc.val["vote"])

\* C8: when a Split document at any depth names a feature the configuration
\* cannot resolve, fromJson does not return a tree.
C8_UnresolvedFeatureFails ==
  (Loaded /\ \E d \in SplitDocs(doc) : Unresolvable(d)) => IsFailure(ret.val)

C8_Witness ==
  /\ pc = "parsed"
  /\ Has(doc, "feature") /\ ~Unresolvable(doc)
  /\ Has(doc, "right") /\ Has(doc.val["right"], "feature")
  /\ Unresolvable(doc.val["right"])
  /\ ret.val = Abort

C10_AlwaysStrictlyBinary ==
  /\ \A n \in held : StrictlyBinary(n)
  /\ (ret.op = "fromJson" /\ IsNode(ret.val)) => StrictlyBinary(ret.val)

\* C10 amended: every tree that fromJson returns is strictly binary, so
\* scale and toJson are defined on it; a node built with the PartitionNode
\* constructor has null children until setLeft and setRight are given nodes.
C10_LoadedStrictlyBinary ==
  (ret.op = "fromJson" /\ IsNode(ret.val)) =>
    /\ StrictlyBinary(ret.val)
    /\ scale(ret.val, Unit).kind # "Undefined"
    /\ toJson(ret.val, T, cfg).type # "undefined"

C10_Witness ==
  /\ ret.op = "fromJson"
  /\ ret.val.kind = "Split"
  /\ ret.val.left.kind = "Split"
  /\ ret.val.right.kind = "Leaf"

====
